---------------------------- MODULE Spec2Model ----------------------------
(***************************************************************************)
(* A model of the chunking and retrieval pipeline of legal_doc_analyzer:   *)
(* PDFProcessor._split_text and the three extractors' process operations,  *)
(* and the two vector stores (ChromaStore, MockStore).                     *)
(*                                                                         *)
(* Text is a sequence of one-character strings.  Python's 0-based          *)
(* positions are kept as they are in the source (start, end, break_point); *)
(* PySlice translates them to TLA+'s 1-based SubSeq.                       *)
(***************************************************************************)
EXTENDS Integers, Sequences, FiniteSets, TLC

VARIABLES
    op,             \* the operation under way: "split", "pdf", "audio", "video"
    pc,             \* position inside that operation
    text,           \* _split_text: its argument
    chunk_size,     \* self.chunk_size
    chunk_overlap,  \* self.chunk_overlap
    start,          \* _split_text: the cursor
    chunks,         \* _split_text: the list of chunks built so far
    file_name,      \* Path(file_path).name of the file given to process
    audio_file,     \* the same for AudioProcessor.process (a video's temp_audio.wav)
    caller,         \* who called AudioProcessor.process: "top" or "video"
    n_pages,        \* PDFProcessor.process: len(pdf.pages)
    page_i,         \* PDFProcessor.process: the page loop's index i
    out,            \* process: its local list of BaseChunk built so far
    transcript,     \* AudioProcessor.process: what model.transcribe returned
    failures,       \* the stages whose external capability has failed
    exc,            \* str(e) of the exception last raised
    tempdir,        \* VideoProcessor.process: its TemporaryDirectory
    frame_sample_rate, \* self.frame_sample_rate
    video,          \* VideoProcessor.process: the clip opened, and what the detector sees in it
    chroma_docs,    \* ChromaStore: the collection's entries, in insertion order
    next_uuid,      \* ChromaStore: how many ids the collection has assigned
    mock_docs,      \* MockStore.documents, a dict in insertion order
    call,           \* the operation called last, with its arguments
    returned,       \* the operation has returned a value to its caller
    raised,         \* the operation has ended by raising to its caller
    result,         \* the value returned
    response,       \* what the generation capability answered
    messages,       \* the chat messages handed to the generation capability
    docs,           \* analyze_document: what similarity_search returned
    api_calls,      \* the external capabilities a request has called, in order
    saved_upload    \* upload_document: the file at uploads/<filename> exists

splitVars == <<text, chunk_size, chunk_overlap, start, chunks>>

extractVars == <<file_name, audio_file, caller, n_pages, page_i, out, transcript,
                 failures, exc, tempdir, frame_sample_rate, video>>

storeVars == <<chroma_docs, next_uuid, mock_docs, call>>

endVars == <<returned, raised, result>>

serviceVars == <<response, messages, docs, api_calls, saved_upload>>

vars == <<op, pc, splitVars, extractVars, storeVars, endVars, serviceVars>>

-----------------------------------------------------------------------------
(* Bounds of the model *)

\* longest text handed to _split_text
MaxLen == 5
\* largest chunk_size tried
MaxSize == 4
\* chunks of one _split_text call the model records; a call that loops forever
\* goes on appending, and the model then keeps the first MaxChunks only
MaxChunks == 8

Alphabet == {"A", "B", " ", "\n"}

Texts == UNION {[1..n -> Alphabet] : n \in 0..MaxLen}

-----------------------------------------------------------------------------
(* Python's string primitives *)

\* None
PyNone == [py_none |-> TRUE]

Max(a, b) == IF a >= b THEN a ELSE b

Min(a, b) == IF a <= b THEN a ELSE b

\* a slice index as Python resolves it against a string of length n:
\* a negative index counts from the end, and both ends are clamped
SliceIndex(i, n) == IF i < 0 THEN Max(i + n, 0) ELSE Min(i, n)

\* s[i:j]
PySlice(s, i, j) ==
    LET lo == SliceIndex(i, Len(s))
        hi == SliceIndex(j, Len(s))
    IN  IF lo >= hi THEN <<>> ELSE SubSeq(s, lo + 1, hi)

\* s.rfind(c): the 0-based position of the last c in s, -1 when there is none
RFind(s, c) ==
    LET hits == {k \in 1..Len(s) : s[k] = c}
    IN  IF hits = {} THEN -1
        ELSE (CHOOSE k \in hits : \A m \in hits : m <= k) - 1

\* s.strip() = "" for the whitespace of the alphabet
IsBlank(s) == \A k \in 1..Len(s) : s[k] \in {" ", "\n"}

-----------------------------------------------------------------------------
(* PDFProcessor._split_text, one loop iteration per step *)

\* end = start + self.chunk_size
WindowEndOffByOne(s) == s + chunk_size + 1

WindowEnd(s) == s + chunk_size

\* the break point when only spaces are looked for
BreakPointSpaceOnly(chunk) == RFind(chunk, " ")

\* break_point = max(last_newline, last_space)
BreakPoint(chunk) == Max(RFind(chunk, "\n"), RFind(chunk, " "))

\* the end of the chunk taken at cursor s: the window's end, or the break
\* point when the window stops short of the text's end and holds one
ChunkEnd(s) ==
    LET end == WindowEnd(s)
        bp  == BreakPoint(PySlice(text, s, end))
    IN  IF end < Len(text) /\ bp # -1 THEN s + bp ELSE end

\* chunks.append(chunk), as far as the model records the list
Record(list, chunk) ==
    IF Len(list) < MaxChunks THEN Append(list, chunk) ELSE list

\* while start < text_len: ... chunks.append(chunk); start = end - overlap
SplitStep ==
    /\ pc = "split_loop"
    /\ start < Len(text)
    /\ LET end == ChunkEnd(start)
       IN  /\ chunks' = Record(chunks, PySlice(text, start, end))
           /\ start' = end - chunk_overlap
    /\ UNCHANGED <<op, serviceVars, pc, text, chunk_size, chunk_overlap, extractVars,
                   storeVars, endVars>>

\* the loop condition fails: return chunks, to the caller of _split_text or
\* to line 72 of PDFProcessor.process
SplitReturn ==
    /\ pc = "split_loop"
    /\ ~(start < Len(text))
    /\ IF op = "split"
       THEN /\ pc' = "done"
            /\ returned' = TRUE
            /\ result' = chunks
            /\ UNCHANGED raised
       ELSE /\ pc' = "pdf_emit"
            /\ UNCHANGED endVars
    /\ UNCHANGED <<op, serviceVars, splitVars, extractVars, storeVars>>

\* no extractor is running
ExtractIdle ==
    /\ file_name = ""
    /\ audio_file = ""
    /\ caller = "top"
    /\ n_pages = 0
    /\ page_i = 0
    /\ out = <<>>
    /\ transcript = PyNone
    /\ failures = {}
    /\ exc = ""
    /\ tempdir = "none"
    /\ frame_sample_rate = 1
    /\ video = PyNone

\* no call on the stores
NoCall == [name |-> "none"]

\* both stores as constructed
StoreIdle ==
    /\ chroma_docs = <<>>
    /\ next_uuid = 0
    /\ mock_docs = <<>>
    /\ call = NoCall

\* no request on the API or on MistralService
ServiceIdle ==
    /\ response = <<>>
    /\ messages = <<>>
    /\ docs = <<>>
    /\ api_calls = <<>>
    /\ saved_upload = FALSE

\* the operation is under way
NothingReturned ==
    /\ returned = FALSE
    /\ raised = FALSE
    /\ result = <<>>

\* a direct call of _split_text on a processor built with
\* chunk_size > chunk_overlap >= 0
SplitInit ==
    /\ op = "split"
    /\ pc = "split_loop"
    /\ text \in Texts
    /\ chunk_size \in 1..MaxSize
    /\ chunk_overlap \in 0..(chunk_size - 1)
    /\ start = 0
    /\ chunks = <<>>
    /\ ExtractIdle
    /\ StoreIdle
    /\ NothingReturned
    /\ ServiceIdle

SplitNext == SplitStep \/ SplitReturn

SplitSpec == SplitInit /\ [][SplitNext]_vars

\* the interpreter always runs the loop's next iteration
FairSplitSpec == SplitSpec /\ WF_vars(SplitNext)

-----------------------------------------------------------------------------
(* Claims about _split_text *)

\* C1: for every text and every chunk_size > chunk_overlap >= 0, _split_text
\* terminates: the cursor reaches the end of the text and the list of chunks
\* is returned.
SplitTerminates == <>(pc = "done")

\* chunk[:-k], the chunk without its last k characters (all of it for k = 0)
DropLast(chunk, k) == SubSeq(chunk, 1, Len(chunk) - k)

\* the chunks' non-overlapping prefixes, concatenated: every chunk but the
\* last without the chunk_overlap characters it shares with its successor,
\* and the last chunk whole
RECURSIVE Reconstructed(_, _)
Reconstructed(list, i) ==
    IF i > Len(list) THEN <<>>
    ELSE IF i = Len(list) THEN list[i]
    ELSE DropLast(list[i], chunk_overlap) \o Reconstructed(list, i + 1)

\* C2: concatenating the non-overlapping prefix of each chunk _split_text
\* returns reconstructs the text exactly: no character is dropped and none
\* is duplicated outside the declared overlap.
SplitReconstructs ==
    (op = "split" /\ pc = "done") => Reconstructed(result, 1) = text

\* c is text[i:j] for some 0 <= i <= j <= len(text)
IsSubstring(c, t) ==
    \E i \in 0..Len(t) : \E j \in i..Len(t) : c = SubSeq(t, i + 1, j)

\* C3: every chunk _split_text builds, and so every chunk it returns, is a
\* contiguous substring of the text and at most chunk_size characters long.
ChunksBoundedSubstrings ==
    /\ \A k \in 1..Len(chunks) :
          Len(chunks[k]) <= chunk_size /\ IsSubstring(chunks[k], text)
    /\ (op = "split" /\ pc = "done") => result = chunks

\* C3's case: a call has returned several chunks, one cut at a space or a
\* newline (so shorter than the window) and one as long as the window
SplitReturnedCutAndFullChunks ==
    /\ op = "split" /\ pc = "done" /\ returned
    /\ Len(result) >= 3
    /\ \E k \in 1..Len(result) : Len(result[k]) = chunk_size /\ chunk_size >= 2
    /\ \E k \in 1..(Len(result) - 1) :
          /\ result[k] # <<>>
          /\ Len(result[k]) < chunk_size - chunk_overlap

-----------------------------------------------------------------------------
(* The extractors: PDFProcessor, AudioProcessor, VideoProcessor *)

\* most pages of a PDF
MaxPages == 2
\* longest text of a page, and of a transcript
MaxPageLen == 3
\* most chunks the transcript's text splitter returns
MaxPieces == 2
\* longest video, in whole seconds
MaxDuration == 2
\* largest frame_sample_rate tried
MaxRate == 2

Whitespace == {" ", "\n"}

\* what page.extract_text() and Whisper may return as text
PageTexts == UNION {[1..n -> {"A", " "}] : n \in 0..MaxPageLen}

\* BaseChunk(content=..., metadata=...)
BaseChunk(content, metadata) == [content |-> content, metadata |-> metadata]

\* d.get(key, default)
Get(d, key, default) == IF key \in DOMAIN d THEN d[key] ELSE default

\* s.strip()
Strip(s) ==
    LET inked == {k \in 1..Len(s) : s[k] \notin Whitespace}
    IN  IF inked = {} THEN <<>>
        ELSE SubSeq(s, CHOOSE k \in inked : \A m \in inked : k <= m,
                       CHOOSE k \in inked : \A m \in inked : m <= k)

\* raise: the operation ends with the exception going to its caller
Raise(msg) ==
    /\ pc' = "done"
    /\ raised' = TRUE
    /\ exc' = msg
    /\ UNCHANGED <<returned, result>>

\* return value: the operation ends with a value for its caller
Return(value) ==
    /\ pc' = "done"
    /\ returned' = TRUE
    /\ result' = value
    /\ UNCHANGED raised

(* PDFProcessor.process *)

\* except Exception as e: logger.error(...); return chunks
PdfExceptSwallow(msg) == exc' = msg /\ Return(out)

\* except Exception as e: logger.error(...); raise
PdfExcept(msg) == Raise(msg)

\* a page's chunk tagged with the 0-based index of its page
PdfChunkZeroBasedPage(chunk_text, i, j) ==
    BaseChunk(chunk_text,
              [document_type |-> "pdf",
               page_number   |-> i,
               chunk_index   |-> j,
               source_file   |-> file_name,
               language      |-> "en"])

\* the BaseChunk of chunk j of page i (both 0-based)
PdfChunk(chunk_text, i, j) ==
    BaseChunk(chunk_text,
              [document_type |-> "pdf",
               page_number   |-> i + 1,
               chunk_index   |-> j,
               source_file   |-> file_name,
               language      |-> "en"])

\* for j, chunk_text in enumerate(text_chunks): chunks.append(BaseChunk(...))
PdfPageChunks(text_chunks, i) ==
    [k \in 1..Len(text_chunks) |-> PdfChunk(text_chunks[k], i, k - 1)]

\* chunks = []; open(file_path, 'rb'); pdf = pypdf.PdfReader(file)
PdfOpen ==
    /\ pc = "pdf_open"
    /\ \/ /\ \E n \in 0..MaxPages : n_pages' = n
          /\ page_i' = 0
          /\ out' = <<>>
          /\ pc' = "pdf_page"
          /\ UNCHANGED <<failures, exc, endVars>>
       \/ /\ failures' = failures \cup {"open"}
          /\ PdfExcept("cannot read the PDF")
          /\ UNCHANGED <<n_pages, page_i, out>>
    /\ UNCHANGED <<op, serviceVars, storeVars, splitVars, file_name, audio_file, caller, transcript,
                   tempdir, frame_sample_rate, video>>

\* text = page.extract_text(); if not text.strip(): continue;
\* text_chunks = self._split_text(text)
PdfExtractPage ==
    /\ pc = "pdf_page"
    /\ page_i < n_pages
    /\ \/ /\ \E t \in PageTexts :
               IF IsBlank(t)
               THEN /\ text' = t
                    /\ page_i' = page_i + 1
                    /\ UNCHANGED <<pc, start, chunks>>
               ELSE /\ text' = t
                    /\ start' = 0
                    /\ chunks' = <<>>
                    /\ pc' = "split_loop"
                    /\ UNCHANGED page_i
          /\ UNCHANGED <<failures, exc, endVars>>
       \/ /\ failures' = failures \cup {"extract_text"}
          /\ PdfExcept("cannot extract the page's text")
          /\ UNCHANGED <<page_i, text, start, chunks>>
    /\ UNCHANGED <<op, serviceVars, storeVars, chunk_size, chunk_overlap, file_name, audio_file, caller,
                   n_pages, out, transcript, tempdir, frame_sample_rate, video>>

\* the page's chunks are appended, and the page loop goes on
PdfEmit ==
    /\ pc = "pdf_emit"
    /\ out' = out \o PdfPageChunks(chunks, page_i)
    /\ page_i' = page_i + 1
    /\ pc' = "pdf_page"
    /\ UNCHANGED <<op, serviceVars, storeVars, splitVars, file_name, audio_file, caller, n_pages,
                   transcript, failures, exc, tempdir, frame_sample_rate, video, endVars>>

\* the page loop is over: return chunks
PdfReturn ==
    /\ pc = "pdf_page"
    /\ page_i >= n_pages
    /\ Return(out)
    /\ UNCHANGED <<op, serviceVars, splitVars, extractVars, storeVars>>

(* AudioProcessor.process *)

\* what self.model.transcribe(file_path) may return
TranscribeResults ==
    {PyNone, <<>>, [language |-> "fr"]}
        \cup {[text |-> t] : t \in PageTexts}
        \cup {[text |-> t, language |-> "fr"] : t \in PageTexts}

\* not result
NoTextOnlyWhenNoResult(r) == r = PyNone \/ DOMAIN r = {}

\* not result or not result.get("text")
NoText(r) ==
    \/ r = PyNone
    \/ DOMAIN r = {}
    \/ "text" \notin DOMAIN r
    \/ r.text = <<>>

\* the chunk returned when nothing was transcribed
NoSpeechChunk ==
    BaseChunk(<<"[Audio content detected]">>,
              [document_type |-> "audio",
               source_file   |-> audio_file,
               language      |-> "en",
               status        |-> "no_speech_detected"])

\* the chunk returned when a step has raised e, msg = str(e)
ErrorChunk(msg) ==
    BaseChunk(<<"[Error processing audio: ", msg, "]">>,
              [document_type |-> "audio",
               source_file   |-> audio_file,
               status        |-> "error",
               error         |-> msg])

\* the pieces RecursiveCharacterTextSplitter may cut out of t: it strips every
\* piece and drops the empty ones
Pieces(t) ==
    {SubSeq(t, i, j) : i \in 1..Len(t), j \in 1..Len(t)}
        \ {p \in {SubSeq(t, i, j) : i \in 1..Len(t), j \in 1..Len(t)} :
             p = <<>> \/ p[1] \in Whitespace \/ p[Len(p)] \in Whitespace}

\* self.text_splitter.split_text(t): nothing for a text of whitespace only,
\* otherwise a non-empty list of pieces
SplitterOutputs(t) ==
    IF IsBlank(t) THEN {<<>>}
    ELSE UNION {[1..n -> Pieces(t)] : n \in 1..MaxPieces}

\* for i, chunk_text in enumerate(text_chunks): chunks.append(BaseChunk(...))
AudioChunks(text_chunks) ==
    [k \in 1..Len(text_chunks) |->
        BaseChunk(Strip(text_chunks[k]),
                  [document_type |-> "audio",
                   chunk_index   |-> k - 1,
                   total_chunks  |-> Len(text_chunks),
                   source_file   |-> audio_file,
                   language      |-> Get(transcript, "language", "en")])]

\* AudioProcessor.process returns value: to the caller of process, or to
\* line 60 of VideoProcessor.process, which extends its chunks by it
AudioFinish(value) ==
    IF caller = "video"
    THEN /\ out' = out \o value
         /\ pc' = "video_frames"
         /\ UNCHANGED endVars
    ELSE /\ Return(value)
         /\ UNCHANGED out

\* except Exception as e: logger.error(...); raise
AudioExceptRaise(msg) == Raise(msg) /\ UNCHANGED out

\* except Exception as e: logger.error(...); return [BaseChunk(error chunk)]
AudioExcept(msg) == exc' = msg /\ AudioFinish(<<ErrorChunk(msg)>>)

\* result = self.model.transcribe(file_path), and the no-text return
AudioTranscribe ==
    /\ pc = "audio_transcribe"
    /\ \/ /\ \E r \in TranscribeResults :
               /\ transcript' = r
               /\ IF NoText(r)
                  THEN AudioFinish(<<NoSpeechChunk>>)
                  ELSE pc' = "audio_split" /\ UNCHANGED <<out, endVars>>
          /\ UNCHANGED <<failures, exc>>
       \/ /\ failures' = failures \cup {"speech_to_text"}
          /\ AudioExcept("transcription failed")
          /\ UNCHANGED transcript
    /\ UNCHANGED <<op, serviceVars, storeVars, splitVars, file_name, audio_file, caller, n_pages, page_i,
                   tempdir, frame_sample_rate, video>>

\* text_chunks = self.text_splitter.split_text(result["text"]); the chunks
\* are built and returned
AudioSplit ==
    /\ pc = "audio_split"
    /\ IF transcript = PyNone \/ "text" \notin DOMAIN transcript
       THEN \* result["text"] raises (TypeError, KeyError) inside the try block
            AudioExcept("'text'")
       ELSE /\ \E text_chunks \in SplitterOutputs(transcript.text) :
                   AudioFinish(AudioChunks(text_chunks))
            /\ UNCHANGED exc
    /\ UNCHANGED <<op, serviceVars, storeVars, splitVars, file_name, audio_file, caller, n_pages, page_i,
                   transcript, failures, tempdir, frame_sample_rate, video>>

(* VideoProcessor.process *)

\* the labels and scores the detector may leave above the threshold in a frame
Detections == {<<>>, <<"person (0.98)">>, <<"person (0.98)", "chair (0.71)">>}

\* ', '.join(items)
RECURSIVE Join(_)
Join(items) ==
    IF Len(items) = 0 THEN <<>>
    ELSE IF Len(items) = 1 THEN <<items[1]>>
    ELSE <<items[1], ", ">> \o Join(Tail(items))

\* the chunk of the objects detected at second t
FrameChunk(t, detected_objects) ==
    BaseChunk(<<"Detected objects at ", ToString(t), "s: ">> \o Join(detected_objects),
              [timestamp |-> t,
               type      |-> "object_detection",
               objects   |-> detected_objects])

\* a chunk for every sampled second, whatever the detector left in its frame
RECURSIVE FrameChunksEverySample(_, _, _)
FrameChunksEverySample(t, duration, detected) ==
    IF t >= duration THEN <<>>
    ELSE <<FrameChunk(t, detected[t])>>
             \o FrameChunksEverySample(t + frame_sample_rate, duration, detected)

\* for t in range(t, duration, self.frame_sample_rate):
\*     if len(results["labels"]) > 0: chunks.append(chunk)
RECURSIVE FrameChunks(_, _, _)
FrameChunks(t, duration, detected) ==
    IF t >= duration THEN <<>>
    ELSE (IF Len(detected[t]) > 0 THEN <<FrameChunk(t, detected[t])>> ELSE <<>>)
             \o FrameChunks(t + frame_sample_rate, duration, detected)

\* VideoFileClip(file_path): a clip of int(video.duration) whole seconds, and
\* for each second the labels the detector leaves above the threshold in
\* the frame at that second
VideoFileClips ==
    UNION {[duration : {d}, detected : [0..(d - 1) -> Detections]] :
              d \in 0..MaxDuration}

\* the directory is left as it is when the block ends
TemporaryDirectoryLeft(t) == t

\* the end of `with tempfile.TemporaryDirectory() as temp_dir:`, by its last
\* statement or by an exception: the directory is removed
TemporaryDirectoryExit(t) == "released"

\* except Exception as e: logger.error(...); return chunks
VideoExceptSwallow(msg) == exc' = msg /\ Return(out)

\* except Exception as e: logger.error(...); raise
VideoExcept(msg) == Raise(msg)

\* video = VideoFileClip(file_path); chunks = [];
\* with tempfile.TemporaryDirectory() as temp_dir:
VideoOpen ==
    /\ pc = "video_open"
    /\ \/ /\ video' \in VideoFileClips
          /\ out' = <<>>
          /\ tempdir' = "open"
          /\ pc' = "video_audio_track"
          /\ UNCHANGED <<failures, exc, endVars>>
       \/ /\ failures' = failures \cup {"open"}
          /\ VideoExcept("cannot open the video")
          /\ UNCHANGED <<out, tempdir, video>>
    /\ UNCHANGED <<op, serviceVars, storeVars, splitVars, file_name, audio_file, caller, n_pages, page_i,
                   transcript, frame_sample_rate>>

\* video.audio.write_audiofile(temp_audio_path, logger=None)
VideoExtractAudio ==
    /\ pc = "video_audio_track"
    /\ \/ /\ pc' = "video_call_audio"
          /\ UNCHANGED <<failures, exc, tempdir, endVars>>
       \/ /\ failures' = failures \cup {"audio_track"}
          /\ tempdir' = TemporaryDirectoryExit(tempdir)
          /\ VideoExcept("cannot extract the audio track")
    /\ UNCHANGED <<op, serviceVars, storeVars, splitVars, file_name, audio_file, caller, n_pages, page_i,
                   out, transcript, frame_sample_rate, video>>

\* audio_processor = AudioProcessor();
\* audio_chunks = audio_processor.process(temp_audio_path)
VideoCallAudio ==
    /\ pc = "video_call_audio"
    /\ \/ /\ caller' = "video"
          /\ audio_file' = "temp_audio.wav"
          /\ pc' = "audio_transcribe"
          /\ UNCHANGED <<failures, exc, tempdir, endVars>>
       \/ /\ failures' = failures \cup {"load_speech_model"}
          /\ tempdir' = TemporaryDirectoryExit(tempdir)
          /\ VideoExcept("cannot load the speech model")
          /\ UNCHANGED <<caller, audio_file>>
    /\ UNCHANGED <<op, serviceVars, storeVars, splitVars, file_name, n_pages, page_i, out, transcript,
                   frame_sample_rate, video>>

\* frame_chunks = self._process_frames(video); chunks.extend(frame_chunks);
\* the with block ends
VideoFrames ==
    /\ pc = "video_frames"
    /\ \/ /\ out' = out \o FrameChunks(0, video.duration, video.detected)
          /\ pc' = "video_close"
          /\ UNCHANGED <<failures, exc, endVars>>
       \/ /\ failures' = failures \cup {"frames"}
          /\ VideoExcept("cannot process the frames")
          /\ UNCHANGED out
    /\ tempdir' = TemporaryDirectoryExit(tempdir)
    /\ UNCHANGED <<op, serviceVars, storeVars, splitVars, file_name, audio_file, caller, n_pages, page_i,
                   transcript, frame_sample_rate, video>>

\* video.close(); return chunks
VideoReturn ==
    /\ pc = "video_close"
    /\ Return(out)
    /\ UNCHANGED <<op, serviceVars, splitVars, extractVars, storeVars>>

(* A call of process on one of the three extractors *)

ExtractInit ==
    /\ op \in {"pdf", "audio", "video"}
    /\ pc = (CASE op = "pdf" -> "pdf_open"
               [] op = "audio" -> "audio_transcribe"
               [] op = "video" -> "video_open")
    /\ file_name = (CASE op = "pdf" -> "contract.pdf"
                      [] op = "audio" -> "hearing.wav"
                      [] op = "video" -> "deposition.mp4")
    /\ audio_file = (IF op = "audio" THEN file_name ELSE "")
    /\ caller = "top"
    /\ text = <<>>
    /\ chunk_size \in (IF op = "pdf" THEN 1..MaxSize ELSE {1})
    /\ chunk_overlap \in (IF op = "pdf" THEN 0..(chunk_size - 1) ELSE {0})
    /\ start = 0
    /\ chunks = <<>>
    /\ n_pages = 0
    /\ page_i = 0
    /\ out = <<>>
    /\ transcript = PyNone
    /\ failures = {}
    /\ exc = ""
    /\ tempdir = "none"
    /\ frame_sample_rate \in (IF op = "video" THEN 1..MaxRate ELSE {1})
    /\ video = PyNone
    /\ StoreIdle
    /\ NothingReturned
    /\ ServiceIdle

ExtractNext ==
    \/ PdfOpen
    \/ PdfExtractPage
    \/ SplitStep
    \/ SplitReturn
    \/ PdfEmit
    \/ PdfReturn
    \/ AudioTranscribe
    \/ AudioSplit
    \/ VideoOpen
    \/ VideoExtractAudio
    \/ VideoCallAudio
    \/ VideoFrames
    \/ VideoReturn

ExtractSpec == ExtractInit /\ [][ExtractNext]_vars

-----------------------------------------------------------------------------
(* Claims about the extractors *)

\* the chunks of one content unit carry chunk_index 0, 1, ..., n-1 in order
\* and total_chunks = n
IndexedAsSequence(list) ==
    \A k \in 1..Len(list) :
        /\ "chunk_index" \in DOMAIN list[k].metadata
        /\ list[k].metadata.chunk_index = k - 1
        /\ "total_chunks" \in DOMAIN list[k].metadata
        /\ list[k].metadata.total_chunks = Len(list)

\* the chunks of page p (1-based) among those PDFProcessor.process returned
ChunksOfPage(list, p) == SelectSeq(list, LAMBDA c : c.metadata.page_number = p)

\* the transcript holds text, so that AudioProcessor.process chunks it
HasText(r) == r # PyNone /\ "text" \in DOMAIN r /\ r.text # <<>>

\* C4: the chunks made of one content unit (a PDF page, a transcript) carry
\* chunk_index 0..n-1 in output order and total_chunks = n, the number of
\* chunks of that unit.
ChunkIndexAndTotalChunks ==
    (pc = "done" /\ returned) =>
        /\ op = "pdf" =>
              \A p \in 1..n_pages : IndexedAsSequence(ChunksOfPage(result, p))
        /\ (op = "audio" /\ HasText(transcript)) => IndexedAsSequence(result)

\* C5: AudioProcessor.process returns at least one chunk whatever speech-to-text
\* does (no result, empty text, whitespace only, text, a failure): never an
\* empty list.
AudioReturnsAtLeastOneChunk ==
    (op = "audio" /\ pc = "done") => (returned /\ Len(result) >= 1)

\* C6: a degenerate outcome of AudioProcessor.process never raises and yields
\* exactly one sentinel chunk: status "no_speech_detected" and the placeholder
\* content when speech-to-text gave no text or empty text, status "error" and
\* the failure's message in the content when a step raised.
AudioDegenerateYieldsOneSentinel ==
    (op = "audio" /\ pc = "done") =>
        /\ ~raised
        /\ returned
        /\ failures # {} =>
              /\ Len(result) = 1
              /\ result[1].metadata.status = "error"
              /\ result[1].metadata.error = "transcription failed"
              /\ result[1].content = <<"[Error processing audio: ", "transcription failed", "]">>
        /\ (failures = {} /\ ~HasText(transcript)) =>
              /\ Len(result) = 1
              /\ result[1].metadata.status = "no_speech_detected"
              /\ result[1].content = <<"[Audio content detected]">>

\* C6's case: speech-to-text has returned empty text, and the call is over
AudioEmptyTextDone ==
    /\ op = "audio" /\ pc = "done"
    /\ transcript # PyNone /\ "text" \in DOMAIN transcript /\ transcript.text = <<>>
    /\ Len(result) = 1

\* C7 as stated: a failure in any stage of PDFProcessor.process or
\* VideoProcessor.process (speech-to-text on the video's audio track among
\* them) is raised to the caller, and no chunk list is returned after it.
ExtractionFailuresAllPropagate ==
    (op \in {"pdf", "video"} /\ failures # {}) =>
        /\ ~returned
        /\ pc = "done" => raised

\* C7, amended: a failure in opening the file, extracting a page's text,
\* extracting the audio track, loading the speech model or processing the
\* frames is raised to the caller and no chunk list is returned; a failure of
\* speech-to-text on the video's audio track alone is not raised: the call
\* returns a chunk list that holds AudioProcessor's status = "error" chunk.
ExtractionFailuresPropagateButSpeechToText ==
    op \in {"pdf", "video"} =>
        /\ (failures \ {"speech_to_text"}) # {} =>
              /\ ~returned
              /\ pc = "done" => raised
        /\ (failures = {"speech_to_text"} /\ pc = "done") =>
              /\ returned
              /\ ~raised
              /\ \E k \in 1..Len(result) :
                    /\ "status" \in DOMAIN result[k].metadata
                    /\ result[k].metadata.status = "error"
                    /\ result[k].metadata.error = "transcription failed"

\* C7's case: a video whose speech-to-text failed, and whose frames held
\* objects, has been processed to the end
VideoDoneAfterSpeechToTextFailure ==
    /\ op = "video" /\ pc = "done"
    /\ failures = {"speech_to_text"}
    /\ Len(result) >= 2

-----------------------------------------------------------------------------
(* The vector stores: ChromaStore and MockStore *)

\* most entries a store receives
MaxDocs == 3
\* longest list of chunks handed to batch_add_documents
MaxBatch == 2
\* largest limit (k) a search asks for
MaxLimit == 4
\* The chunks handed to the stores.  A metadata value of None is modelled as
\* the key's absence: the stores read metadata with .get(key) only, which
\* gives None for both.
StoreChunks ==
    { BaseChunk(<<"lease">>,
                [document_type |-> "pdf", page_number |-> 1, chunk_index |-> 2,
                 source_file |-> "contract.pdf", language |-> "en"]),
      BaseChunk(<<"hearing">>,
                [document_type |-> "audio", chunk_index |-> 0, total_chunks |-> 1,
                 source_file |-> "hearing.wav", language |-> "fr"]),
      BaseChunk(<<"deposition">>,
                [document_type |-> "video", timestamp |-> 3]),
      BaseChunk(<<"note">>, <<>>) }

DocumentTypes == {"pdf", "audio", "video"}

\* the query texts searched for
Queries == {"rent", "testimony"}

\* The distance between the embeddings of a query and of a content.  The
\* embedding function is external and deterministic: any fixed table stands
\* for it, this one with ties and with a different order for each query.
Distance(query, content) ==
    IF query = "rent"
    THEN CASE content = <<"lease">> -> 0
           [] content = <<"note">> -> 1
           [] content = <<"hearing">> -> 1
           [] OTHER -> 2
    ELSE CASE content = <<"hearing">> -> 0
           [] content = <<"deposition">> -> 0
           [] content = <<"note">> -> 1
           [] OTHER -> 2

\* the id the collection assigns to its n-th insertion
Uuid(n) == "uuid-" \o ToString(n)

\* SearchResult(id=..., content=..., score=..., metadata=...)
SearchResult(id, content, score, metadata) ==
    [id |-> id, content |-> content, score |-> score, metadata |-> metadata]

\* the operation returns value
StoreReturn(value) ==
    /\ returned' = TRUE
    /\ raised' = FALSE
    /\ result' = value

\* the operation raises
StoreRaise ==
    /\ returned' = FALSE
    /\ raised' = TRUE
    /\ result' = <<>>

\* the arguments of a search, document_type = None being the key's absence
SearchCall(query, document_type, limit) ==
    IF document_type = ""
    THEN [name |-> "search", query |-> query, limit |-> limit]
    ELSE [name |-> "search", query |-> query, limit |-> limit,
          document_type |-> document_type]

\* if document_type
HasFilter(c) == "document_type" \in DOMAIN c /\ c.document_type # ""

(* ChromaStore *)

\* the values add_document gives to the keys the chunk does not carry
AddDefaults == [timestamp |-> 0, chunk_index |-> 0, language |-> "en"]

\* the metadata add_document persists: six keys, three of them defaulted
StoredMetadata(metadata) ==
    [k \in {key \in {"document_type", "page_number", "timestamp", "source_file",
                     "chunk_index", "language"} :
               key \in DOMAIN metadata \/ key \in DOMAIN AddDefaults} |->
        IF k \in DOMAIN metadata THEN metadata[k] ELSE AddDefaults[k]]

\* the metadata get_document and search hand back, without source_file
ReturnedMetadataNoSource(metadata) ==
    [k \in {"document_type", "page_number", "language"} \cap DOMAIN metadata |->
        metadata[k]]

\* the metadata get_document and search hand back: four keys, each read
\* with .get(key)
ReturnedMetadata(metadata) ==
    [k \in {"document_type", "page_number", "source_file", "language"}
              \cap DOMAIN metadata |-> metadata[k]]

\* the entries a filter {"document_type": document_type} lets through
ChromaMatching(c) ==
    SelectSeq(chroma_docs,
              LAMBDA d : HasFilter(c) =>
                            /\ "document_type" \in DOMAIN d.metadata
                            /\ d.metadata.document_type = c.document_type)

\* the ways the index may return the n closest of the candidates, closest
\* first: n distinct positions, in an order of its own among equal distances
Rankings(query, candidates, n) ==
    {r \in [1..n -> 1..Len(candidates)] :
        /\ \A i, j \in 1..n : i # j => r[i] # r[j]
        /\ \A i, j \in 1..n :
              i <= j => Distance(query, candidates[r[i]].page_content)
                           <= Distance(query, candidates[r[j]].page_content)
        /\ \A i \in 1..n : \A m \in 1..Len(candidates) :
              (\A j \in 1..n : r[j] # m)
                  => Distance(query, candidates[r[i]].page_content)
                        <= Distance(query, candidates[m].page_content)}

\* results.append(SearchResult(...)) for doc, score in docs_and_scores
ChromaResults(query, candidates, ranking) ==
    [i \in 1..Len(ranking) |->
        LET doc == candidates[ranking[i]]
        IN  SearchResult(Get(doc.metadata, "id", ""), doc.page_content,
                         Distance(query, doc.page_content),
                         ReturnedMetadata(doc.metadata))]

\* add_document(chunk): the metadata is built and add_texts stores one text;
\* a failure of the embedding function or of the collection is raised
ChromaAddDocument ==
    /\ op = "chroma"
    /\ next_uuid < MaxDocs
    /\ \E chunk \in StoreChunks :
        /\ call' = [name |-> "add_document", chunk |-> chunk]
        /\ \/ /\ chroma_docs' = Append(chroma_docs,
                                       [id |-> Uuid(next_uuid),
                                        page_content |-> chunk.content,
                                        metadata |-> StoredMetadata(chunk.metadata)])
              /\ next_uuid' = next_uuid + 1
              /\ StoreReturn(Uuid(next_uuid))
              /\ failures' = {}
              /\ exc' = ""
           \/ /\ failures' = {"add_texts"}
              /\ exc' = "cannot add the texts"
              /\ StoreRaise
              /\ UNCHANGED <<chroma_docs, next_uuid>>
    /\ UNCHANGED <<op, serviceVars, pc, splitVars, file_name, audio_file, caller, n_pages, page_i,
                   out, transcript, tempdir, frame_sample_rate, video, mock_docs>>

\* search(query, document_type, limit): the index returns the limit closest
\* entries that pass the filter, fewer when fewer pass; a failure is logged
\* and [] is returned
ChromaSearch ==
    /\ op = "chroma"
    /\ \E query \in Queries, document_type \in DocumentTypes \cup {""},
          limit \in 0..MaxLimit :
        LET c == SearchCall(query, document_type, limit)
            candidates == ChromaMatching(c)
            n == Min(limit, Len(candidates))
        IN  /\ call' = c
            /\ \/ /\ \E ranking \in Rankings(query, candidates, n) :
                        StoreReturn(ChromaResults(query, candidates, ranking))
                  /\ failures' = {}
                  /\ exc' = ""
               \/ /\ failures' = {"similarity_search_with_score"}
                  /\ exc' = "cannot search"
                  /\ StoreReturn(<<>>)
    /\ UNCHANGED <<op, serviceVars, pc, splitVars, file_name, audio_file, caller, n_pages, page_i,
                   out, transcript, tempdir, frame_sample_rate, video, chroma_docs,
                   next_uuid, mock_docs>>

\* get_document(document_id): the entry's content and four metadata keys, or
\* None when there is no such entry or the collection fails
ChromaGetDocument ==
    /\ op = "chroma"
    /\ \E n \in 0..MaxDocs :
        LET found == SelectSeq(chroma_docs, LAMBDA d : d.id = Uuid(n))
        IN  /\ call' = [name |-> "get_document", document_id |-> Uuid(n)]
            /\ \/ /\ IF Len(found) > 0
                     THEN StoreReturn([content  |-> found[1].page_content,
                                       metadata |-> ReturnedMetadata(found[1].metadata)])
                     ELSE StoreReturn(PyNone)
                  /\ failures' = {}
                  /\ exc' = ""
               \/ /\ failures' = {"get"}
                  /\ exc' = "cannot get"
                  /\ StoreReturn(PyNone)
    /\ UNCHANGED <<op, serviceVars, pc, splitVars, file_name, audio_file, caller, n_pages, page_i,
                   out, transcript, tempdir, frame_sample_rate, video, chroma_docs,
                   next_uuid, mock_docs>>

\* the lists of chunks handed to batch_add_documents
ChunkLists == UNION {[1..n -> StoreChunks] : n \in 0..MaxBatch}

\* the metadata batch_add_documents persists for a chunk: the dict literal of
\* its loop, six keys, three of them defaulted
BatchMetadata(metadata) ==
    [k \in {key \in {"document_type", "page_number", "timestamp", "source_file",
                     "chunk_index", "language"} :
               key \in DOMAIN metadata
                  \/ key \in {"timestamp", "chunk_index", "language"}} |->
        IF k \in DOMAIN metadata
        THEN metadata[k]
        ELSE CASE k = "timestamp" -> 0
               [] k = "chunk_index" -> 0
               [] OTHER -> "en"]

\* the entries vectorstore.add_texts makes of texts and metadatas, with the
\* ids it assigns
NewEntries(texts, metadatas) ==
    [i \in 1..Len(texts) |->
        [id |-> Uuid(next_uuid + i - 1),
         page_content |-> texts[i],
         metadata |-> metadatas[i]]]

\* batch_add_documents(chunks): one add_texts for all the chunks; nothing is
\* returned; a failure is logged and raised again
ChromaBatchAddDocuments ==
    /\ op = "chroma"
    /\ \E chunk_list \in ChunkLists :
        LET texts == [i \in 1..Len(chunk_list) |-> chunk_list[i].content]
            metadatas == [i \in 1..Len(chunk_list) |->
                             BatchMetadata(chunk_list[i].metadata)]
        IN  /\ next_uuid + Len(chunk_list) <= MaxDocs
            /\ call' = [name |-> "batch_add_documents", chunks |-> chunk_list]
            /\ \/ /\ chroma_docs' = chroma_docs \o NewEntries(texts, metadatas)
                  /\ next_uuid' = next_uuid + Len(chunk_list)
                  /\ StoreReturn(PyNone)
                  /\ failures' = {}
                  /\ exc' = ""
               \/ /\ failures' = {"add_texts"}
                  /\ exc' = "cannot add the texts"
                  /\ StoreRaise
                  /\ UNCHANGED <<chroma_docs, next_uuid>>
    /\ UNCHANGED <<op, serviceVars, pc, splitVars, file_name, audio_file, caller, n_pages, page_i,
                   out, transcript, tempdir, frame_sample_rate, video, mock_docs>>

\* the Documents vectorstore.similarity_search returns: page_content and the
\* persisted metadata of the k closest entries
SimilarDocuments(query, ranking) ==
    [i \in 1..Len(ranking) |->
        [page_content |-> chroma_docs[ranking[i]].page_content,
         metadata |-> chroma_docs[ranking[i]].metadata]]

\* similarity_search(query, k): the k closest entries; a failure is logged
\* and raised again
ChromaSimilaritySearch ==
    /\ op = "chroma"
    /\ \E query \in Queries, k \in 0..MaxLimit :
        /\ call' = [name |-> "similarity_search", query |-> query, limit |-> k]
        /\ \/ /\ \E ranking \in Rankings(query, chroma_docs, Min(k, Len(chroma_docs))) :
                    StoreReturn(SimilarDocuments(query, ranking))
              /\ failures' = {}
              /\ exc' = ""
           \/ /\ failures' = {"similarity_search"}
              /\ exc' = "cannot search"
              /\ StoreRaise
    /\ UNCHANGED <<op, serviceVars, pc, splitVars, file_name, audio_file, caller, n_pages, page_i,
                   out, transcript, tempdir, frame_sample_rate, video, chroma_docs,
                   next_uuid, mock_docs>>

\* the collection drops its last entry, whatever the id
DeletedLast(entries, document_id) == SubSeq(entries, 1, Len(entries) - 1)

\* vectorstore.delete(ids=[document_id]): the entries of another id remain
Deleted(entries, document_id) ==
    SelectSeq(entries, LAMBDA d : d.id # document_id)

\* delete_document(document_id): the collection drops the entry of that id,
\* if it holds one; a failure is logged and raised again
ChromaDeleteDocument ==
    /\ op = "chroma"
    /\ \E n \in 0..MaxDocs :
        /\ call' = [name |-> "delete_document", document_id |-> Uuid(n)]
        /\ \/ /\ chroma_docs' = Deleted(chroma_docs, Uuid(n))
              /\ StoreReturn(PyNone)
              /\ failures' = {}
              /\ exc' = ""
           \/ /\ failures' = {"delete"}
              /\ exc' = "cannot delete"
              /\ StoreRaise
              /\ UNCHANGED chroma_docs
    /\ UNCHANGED <<op, serviceVars, pc, splitVars, file_name, audio_file, caller, n_pages, page_i,
                   out, transcript, tempdir, frame_sample_rate, video, next_uuid, mock_docs>>

(* MockStore *)

\* the value takes the place of the dict's last entry, if it has one
DictSetOverLast(d, key, value) ==
    IF d = <<>> THEN <<[key |-> key, value |-> value]>>
    ELSE [i \in 1..Len(d) |-> IF i = Len(d) THEN [key |-> key, value |-> value]
                                            ELSE d[i]]

\* d[key] = value on a dict kept as a sequence of entries in insertion order
DictSet(d, key, value) ==
    IF \E i \in 1..Len(d) : d[i].key = key
    THEN [i \in 1..Len(d) |-> IF d[i].key = key THEN [key |-> key, value |-> value]
                                                 ELSE d[i]]
    ELSE Append(d, [key |-> key, value |-> value])

\* the entry is never skipped
MockSkipsNothing(c, chunk) == FALSE

\* if document_type and chunk.metadata.get("document_type") != document_type:
\*     continue
MockSkips(c, chunk) ==
    /\ HasFilter(c)
    /\ \/ "document_type" \notin DOMAIN chunk.metadata
       \/ chunk.metadata.document_type # c.document_type

\* return results
MockLimitIgnored(results, limit) == results

\* return results[:limit]
MockLimit(results, limit) == PySlice(results, 0, limit)

\* the loop over self.documents.items()
MockResults(c) ==
    LET kept == SelectSeq(mock_docs, LAMBDA e : ~MockSkips(c, e.value))
    IN  [i \in 1..Len(kept) |->
            SearchResult(kept[i].key, kept[i].value.content, 1, kept[i].value.metadata)]

\* add_document(chunk)
MockAddDocument ==
    /\ op = "mock"
    /\ Len(mock_docs) < MaxDocs
    /\ \E chunk \in StoreChunks :
        LET doc_id == ToString(Len(mock_docs))
        IN  /\ call' = [name |-> "add_document", chunk |-> chunk]
            /\ mock_docs' = DictSet(mock_docs, doc_id, chunk)
            /\ StoreReturn(doc_id)
    /\ UNCHANGED <<op, serviceVars, pc, splitVars, extractVars, chroma_docs, next_uuid>>

\* search(query, document_type, limit)
MockSearch ==
    /\ op = "mock"
    /\ \E query \in Queries, document_type \in DocumentTypes \cup {""},
          limit \in 0..MaxLimit :
        LET c == SearchCall(query, document_type, limit)
        IN  /\ call' = c
            /\ StoreReturn(MockLimit(MockResults(c), limit))
    /\ UNCHANGED <<op, serviceVars, pc, splitVars, extractVars, chroma_docs, next_uuid, mock_docs>>

(* Calls on one of the two stores, in any order *)

StoreInit ==
    /\ op \in {"chroma", "mock"}
    /\ pc = "store"
    /\ text = <<>>
    /\ chunk_size = 1
    /\ chunk_overlap = 0
    /\ start = 0
    /\ chunks = <<>>
    /\ ExtractIdle
    /\ StoreIdle
    /\ NothingReturned
    /\ ServiceIdle

StoreNext ==
    \/ ChromaAddDocument
    \/ ChromaSearch
    \/ ChromaGetDocument
    \/ MockAddDocument
    \/ MockSearch

StoreSpec == StoreInit /\ [][StoreNext]_vars

(* Calls on a MockStore, in any order *)

MockInit ==
    /\ op = "mock"
    /\ pc = "store"
    /\ text = <<>>
    /\ chunk_size = 1
    /\ chunk_overlap = 0
    /\ start = 0
    /\ chunks = <<>>
    /\ ExtractIdle
    /\ StoreIdle
    /\ NothingReturned
    /\ ServiceIdle

MockNext ==
    \/ MockAddDocument
    \/ MockSearch

MockSpec == MockInit /\ [][MockNext]_vars

(* Calls on a ChromaStore, insertions one by one and in batches, searches of
   both kinds, lookups and deletions, in any order *)

ChromaInit ==
    /\ op = "chroma"
    /\ pc = "store"
    /\ text = <<>>
    /\ chunk_size = 1
    /\ chunk_overlap = 0
    /\ start = 0
    /\ chunks = <<>>
    /\ ExtractIdle
    /\ StoreIdle
    /\ NothingReturned
    /\ ServiceIdle

ChromaNext ==
    \/ ChromaAddDocument
    \/ ChromaBatchAddDocuments
    \/ ChromaSearch
    \/ ChromaSimilaritySearch
    \/ ChromaGetDocument
    \/ ChromaDeleteDocument

ChromaSpec == ChromaInit /\ [][ChromaNext]_vars

(* The calls that read or change the entries of a ChromaStore by id.  The
   searches leave the entries as they are, so the index goes through the same
   states as under ChromaSpec. *)

ChromaIndexNext ==
    \/ ChromaAddDocument
    \/ ChromaBatchAddDocuments
    \/ ChromaGetDocument
    \/ ChromaDeleteDocument

ChromaIndexSpec == ChromaInit /\ [][ChromaIndexNext]_vars

-----------------------------------------------------------------------------
(* Claims about the stores *)

\* the entries of the store under test, as content and persisted metadata
Stored ==
    IF op = "chroma"
    THEN [j \in 1..Len(chroma_docs) |->
             [content |-> chroma_docs[j].page_content,
              metadata |-> chroma_docs[j].metadata]]
    ELSE [j \in 1..Len(mock_docs) |->
             [content |-> mock_docs[j].value.content,
              metadata |-> mock_docs[j].value.metadata]]

\* this step is a get_document that the collection serves, on the id that the
\* add_document just before it returned
GetFollowsAdd ==
    /\ call.name = "add_document"
    /\ returned
    /\ call'.name = "get_document"
    /\ call'.document_id = result
    /\ failures' = {}

\* the answer carries the chunk's value for key, and no value when the
\* chunk has none
SameOrAbsent(answer, chunk, key) ==
    IF key \in DOMAIN chunk.metadata
    THEN key \in DOMAIN answer.metadata /\ answer.metadata[key] = chunk.metadata[key]
    ELSE key \notin DOMAIN answer.metadata

\* C8 as stated: get_document right after add_document(c), on the id it
\* returned, yields c's content and, for every metadata key it hands back,
\* c's value, a key absent from c being absent from the answer, not defaulted.
GetAfterAddReturnsChunk ==
    [][GetFollowsAdd =>
          /\ result' # PyNone
          /\ result'.content = call.chunk.content
          /\ \A key \in {"document_type", "page_number", "source_file", "language"} :
                SameOrAbsent(result', call.chunk, key)]_vars

\* C8, amended: get_document right after add_document(c), on the id it
\* returned, yields c's content; document_type, page_number and source_file
\* equal to c's, and absent when c has none; and language equal to c's, or
\* the default "en" when c has none.
GetAfterAddReturnsChunkLanguageDefaulted ==
    [][GetFollowsAdd =>
          /\ result' # PyNone
          /\ result'.content = call.chunk.content
          /\ \A key \in {"document_type", "page_number", "source_file"} :
                SameOrAbsent(result', call.chunk, key)
          /\ result'.metadata.language = Get(call.chunk.metadata, "language", "en")]_vars

\* C8's case: the chunk without metadata was added last, and get_document on
\* its id has answered with its content and the default language
GotNewestEntryWithDefaultLanguage ==
    /\ call.name = "get_document"
    /\ chroma_docs # <<>>
    /\ call.document_id = chroma_docs[Len(chroma_docs)].id
    /\ result # PyNone
    /\ result.content = <<"note">>
    /\ result.metadata = [language |-> "en"]

\* C9: a search with a document_type filter returns only stored entries whose
\* document_type equals the filter's value, and an empty list, not an error,
\* when no stored entry matches.
SearchHonoursFilter ==
    (call.name = "search" /\ HasFilter(call)) =>
        /\ returned
        /\ ~raised
        /\ \A i \in 1..Len(result) :
              /\ "document_type" \in DOMAIN result[i].metadata
              /\ result[i].metadata.document_type = call.document_type
              /\ \E j \in 1..Len(Stored) :
                    /\ Stored[j].content = result[i].content
                    /\ "document_type" \in DOMAIN Stored[j].metadata
                    /\ Stored[j].metadata.document_type = call.document_type
        /\ (\A j \in 1..Len(Stored) :
               \/ "document_type" \notin DOMAIN Stored[j].metadata
               \/ Stored[j].metadata.document_type # call.document_type)
              => result = <<>>

\* C9's case: a pdf, an audio and a video chunk are stored, and a search
\* filtered on "audio" has returned the audio chunk alone
AudioFilterReturnedAudioChunkOnly ==
    /\ call.name = "search" /\ HasFilter(call) /\ call.document_type = "audio"
    /\ Len(Stored) = 3
    /\ \A t \in DocumentTypes :
          \E j \in 1..3 : /\ "document_type" \in DOMAIN Stored[j].metadata
                          /\ Stored[j].metadata.document_type = t
    /\ Len(result) = 1
    /\ result[1].content = <<"hearing">>

\* C10: with n entries stored, a search with k = 0 returns an empty list, and
\* a search with any k >= 0 returns at most min(k, n) results and does not
\* raise, k > n included.
SearchReturnsAtMostLimit ==
    call.name = "search" =>
        /\ returned
        /\ ~raised
        /\ Len(result) <= Min(call.limit, Len(Stored))
        /\ call.limit = 0 => result = <<>>

\* C10's case: a search asked for more results than the two or more entries
\* stored, and returned them all
SearchBeyondStoredReturnedAll ==
    /\ call.name = "search"
    /\ Len(Stored) >= 2
    /\ call.limit > Len(Stored)
    /\ Len(result) = Len(Stored)

\* C11: on ChromaStore a failure of the embedding function or of the backing
\* store during search or similarity_search yields an empty list and no raised
\* error, and the same failure during add_document, batch_add_documents or
\* delete_document is raised to the caller.
SearchesSwallowOthersPropagate ==
    (op = "chroma" /\ failures # {}) =>
        /\ call.name \in {"search", "similarity_search"} =>
              returned /\ ~raised /\ result = <<>>
        /\ call.name \in {"add_document", "batch_add_documents", "delete_document"} =>
              raised /\ ~returned

\* C12: a get_document or a delete_document on an id the index does not hold,
\* served by the collection, returns None without raising and leaves the index
\* as it was, so a second deletion of an id changes nothing.
AbsentIdIsNoError ==
    [][(/\ call'.name \in {"get_document", "delete_document"}
        /\ failures' = {}
        /\ \A i \in 1..Len(chroma_docs) : chroma_docs[i].id # call'.document_id)
           => /\ returned' /\ ~raised'
              /\ result' = PyNone
              /\ chroma_docs' = chroma_docs]_vars

\* C12 witness: a deletion of an id that was never assigned has returned on a
\* store that holds entries
DeletedNeverAssignedId ==
    /\ call.name = "delete_document"
    /\ call.document_id = Uuid(MaxDocs)
    /\ returned /\ ~raised
    /\ Len(chroma_docs) >= 2

\* the last n entries of the index are what add_document would have persisted
\* for the chunks of the list, in order
LastEntriesAsSingleAdds(chunk_list) ==
    LET n == Len(chunk_list)
        m == Len(chroma_docs)
    IN  /\ m >= n
        /\ \A i \in 1..n :
              /\ chroma_docs[m - n + i].page_content = chunk_list[i].content
              /\ chroma_docs[m - n + i].metadata = StoredMetadata(chunk_list[i].metadata)
              /\ chroma_docs[m - n + i].id = Uuid(next_uuid - n + i - 1)

\* C13: a served batch_add_documents leaves the index as add_document on each
\* chunk in order would, and returns the assigned ids, one per chunk, in the
\* order of the chunks.
BatchSameAsSingle ==
    (call.name = "batch_add_documents" /\ returned) =>
        /\ LastEntriesAsSingleAdds(call.chunks)
        /\ result # PyNone
        /\ result = [i \in 1..Len(call.chunks) |->
                         Uuid(next_uuid - Len(call.chunks) + i - 1)]

\* the ways to tell which stored entry each result of a search stands for
Origins(results) ==
    {f \in [1..Len(results) -> 1..Len(Stored)] :
        /\ \A i, j \in 1..Len(results) : i # j => f[i] # f[j]
        /\ \A i \in 1..Len(results) : Stored[f[i]].content = results[i].content}

\* C14: the list a search returns is best first by score, results of equal
\* score are in the order of their insertion, and MockStore returns exactly the
\* first limit matching entries in insertion order.
SearchOrderedTiesByInsertion ==
    (call.name = "search" /\ returned /\ failures = {}) =>
        /\ \A i, j \in 1..Len(result) : i <= j => result[i].score <= result[j].score
        /\ \E f \in Origins(result) :
              \A i, j \in 1..Len(result) :
                  (i < j /\ result[i].score = result[j].score) => f[i] < f[j]
        /\ op = "mock" => result = MockLimit(MockResults(call), call.limit)

\* C19: when VideoProcessor.process has handed control back, by returning or by
\* raising, no temporary directory of that call is left: the one it created has
\* been released, and none was created only when the video could not be opened.
VideoTempDirReleasedOnExit ==
    (op = "video" /\ pc = "done") =>
        /\ tempdir \in {"none", "released"}
        /\ tempdir = "none" => "open" \in failures

\* C19 witness: process has raised because the frames could not be processed
\* and its directory is released
VideoRaisedOnFramesDirReleased ==
    /\ op = "video"
    /\ pc = "done"
    /\ raised
    /\ "frames" \in failures
    /\ tempdir = "released"

\* C20: at every iteration of _split_text the cursor moves to a strictly larger
\* position that lies within 0..len(text).
CursorAdvancesWithinText ==
    [][(pc = "split_loop" /\ start < Len(text))
          => (start' > start /\ start' \in 0..Len(text))]_vars

-----------------------------------------------------------------------------
(* BaseChunker._validate_chunk *)

\* longest run of spaces before and after the letters of a content
MaxPad == 2
\* most letters of a content
MaxLetters == 11
\* min_chunk_size: int = 10
DefaultMinChunkSize == 10

\* n times the character c
RECURSIVE Repeat(_, _)
Repeat(c, n) == IF n <= 0 THEN <<>> ELSE <<c>> \o Repeat(c, n - 1)

\* the contents of the chunks checked: letters between runs of spaces
ChunkContents ==
    {Repeat(" ", a) \o Repeat("A", n) \o Repeat(" ", b) :
        a \in 0..MaxPad, n \in 0..MaxLetters, b \in 0..MaxPad}

\* the status a chunk carries in its metadata, "" for none
Statuses == {"", "error", "no_speech_detected"}

\* the min_chunk_size a chunker is built with
MinChunkSizes == {1, DefaultMinChunkSize}

\* BaseChunk.__len__: len(str(self.content).strip())
ChunkLen(chunk) == Len(Strip(chunk.content))

\* return len(chunk) >= self.min_chunk_size
ValidateChunk(chunk, min_chunk_size) == ChunkLen(chunk) >= min_chunk_size

\* _validate_chunk(chunk) on a chunker built with min_chunk_size
ValidateChunkCall ==
    /\ op = "validate"
    /\ \E content \in ChunkContents, status \in Statuses,
          min_chunk_size \in MinChunkSizes :
        LET chunk == BaseChunk(content, IF status = "" THEN <<>>
                                                      ELSE [status |-> status])
        IN  /\ call' = [name |-> "_validate_chunk", chunk |-> chunk,
                        min_chunk_size |-> min_chunk_size]
            /\ StoreReturn(ValidateChunk(chunk, min_chunk_size))
    /\ UNCHANGED <<op, serviceVars, pc, splitVars, extractVars, chroma_docs,
                   next_uuid, mock_docs>>

ValidateInit ==
    /\ op = "validate"
    /\ pc = "validate"
    /\ text = <<>>
    /\ chunk_size = 1
    /\ chunk_overlap = 0
    /\ start = 0
    /\ chunks = <<>>
    /\ ExtractIdle
    /\ StoreIdle
    /\ NothingReturned
    /\ ServiceIdle

ValidateNext == ValidateChunkCall

ValidateSpec == ValidateInit /\ [][ValidateNext]_vars

\* C18: the validity check rejects a chunk that carries no error status and
\* whose trimmed content is shorter than the minimum, and accepts a chunk that
\* carries status "error", however short its trimmed content.
ShortRejectedUnlessError ==
    call.name = "_validate_chunk" =>
        LET short == Len(Strip(call.chunk.content)) < call.min_chunk_size
            error == Get(call.chunk.metadata, "status", "") = "error"
        IN  /\ (short /\ ~error) => result = FALSE
            /\ error => result = TRUE

-----------------------------------------------------------------------------
(* MistralService: the structured analyses *)

\* most lines of a generation output made of lines
MaxLines == 5
\* most sections of a generation output made of sections
MaxSections == 4

\* the lines the generation capability may write: three fields, four fields,
\* no delimiter, key and text, key and number
ResponseLines ==
    { <<"a", " ", "|", "b", "|", "c">>,
      <<"a", "|", "b", "|", "c", "|", "d">>,
      <<"a">>,
      <<"k", ":", "v">>,
      <<"k", ":", "7">> }

\* the sections it may write: key and text, heading and item, heading alone
ResponseSections ==
    { <<"k", ":", "v">>, <<"h", "\n", "x">>, <<"h">> }

\* sep.join(items)
RECURSIVE JoinWith(_, _)
JoinWith(items, sep) ==
    IF Len(items) = 0 THEN <<>>
    ELSE IF Len(items) = 1 THEN items[1]
    ELSE items[1] \o sep \o JoinWith(Tail(items), sep)

\* what response.choices[0].message.content may be: lines joined by newlines
\* or sections joined by blank lines
Responses ==
    {JoinWith(ls, <<"\n">>) :
        ls \in UNION {[1..n -> ResponseLines] : n \in 0..MaxLines}}
    \cup
    {JoinWith(ss, <<"\n", "\n">>) :
        ss \in UNION {[1..n -> ResponseSections] : n \in 1..MaxSections}}

\* s.find(sep) + 1: the first position at which sep occurs in s, 0 for none
Find(s, sep) ==
    LET hits == {i \in 1..(Len(s) - Len(sep) + 1) :
                    SubSeq(s, i, i + Len(sep) - 1) = sep}
    IN  IF hits = {} THEN 0 ELSE CHOOSE i \in hits : \A j \in hits : i <= j

\* s.split(sep)
RECURSIVE Split(_, _)
Split(s, sep) ==
    LET i == Find(s, sep)
    IN  IF i = 0 THEN <<s>>
        ELSE <<SubSeq(s, 1, i - 1)>> \o Split(SubSeq(s, i + Len(sep), Len(s)), sep)

\* c in s
Contains(s, c) == \E i \in 1..Len(s) : s[i] = c

Digits == <<"0", "1", "2", "3", "4", "5", "6", "7", "8", "9">>

\* the value of a decimal digit
DigitValue(c) == (CHOOSE i \in 1..Len(Digits) : Digits[i] = c) - 1

\* float(s) does not raise ValueError, for s of the characters drawn here
IsFloat(s) == Len(s) > 0 /\ \A i \in 1..Len(s) : \E k \in 1..Len(Digits) : Digits[k] = s[i]

\* float(s) for such an s
RECURSIVE ParseFloat(_)
ParseFloat(s) ==
    IF Len(s) = 0 THEN 0
    ELSE 10 * ParseFloat(SubSeq(s, 1, Len(s) - 1)) + DigitValue(s[Len(s)])

\* [x.strip() for x in items]
StripAll(items) == [i \in 1..Len(items) |-> Strip(items[i])]

\* the lines of the response that hold the delimiter
PipeLines(r) == SelectSeq(Split(r, <<"\n">>), LAMBDA line : Contains(line, "|"))

\* a, b, ... = [part.strip() for part in line.split('|')] raises ValueError:
\* some line with the delimiter has not exactly n parts
PipeRaises(r, n) ==
    \E i \in 1..Len(PipeLines(r)) : Len(Split(PipeLines(r)[i], <<"|">>)) # n

\* the list of dicts built of the lines with the delimiter
PipeParsed(r, keys) ==
    [i \in 1..Len(PipeLines(r)) |->
        LET parts == StripAll(Split(PipeLines(r)[i], <<"|">>))
        IN  [k \in {keys[j] : j \in 1..Len(keys)} |->
                parts[CHOOSE j \in 1..Len(keys) : keys[j] = k]]]

\* assess_legal_risks raises IndexError: sections[0] has no ':' or there are
\* fewer than four sections
RisksRaises(r) ==
    LET sections == Split(r, <<"\n", "\n">>)
    IN  \/ Len(Split(sections[1], <<":">>)) < 2
        \/ Len(sections) < 4

\* the dict assess_legal_risks returns
RisksParsed(r) ==
    LET sections == Split(r, <<"\n", "\n">>)
    IN  [overall_risk_level |-> Strip(Split(sections[1], <<":">>)[2]),
         risk_factors    |-> StripAll(Tail(Split(sections[2], <<"\n">>))),
         recommendations |-> StripAll(Tail(Split(sections[3], <<"\n">>))),
         priority_issues |-> StripAll(Tail(Split(sections[4], <<"\n">>)))]

\* classify_document raises IndexError or ValueError: fewer than five lines,
\* one of the five without ':', or a confidence float() does not take
ClassifyRaises(r) ==
    LET lines == Split(r, <<"\n">>)
    IN  \/ Len(lines) < 5
        \/ \E i \in 1..5 : Len(Split(lines[i], <<":">>)) < 2
        \/ ~IsFloat(Strip(Split(lines[5], <<":">>)[2]))

\* the dict classify_document returns
ClassifyParsed(r) ==
    LET lines == Split(r, <<"\n">>)
    IN  [document_type |-> Strip(Split(lines[1], <<":">>)[2]),
         sub_type      |-> Strip(Split(lines[2], <<":">>)[2]),
         jurisdiction  |-> Strip(Split(lines[3], <<":">>)[2]),
         practice_area |-> Strip(Split(lines[4], <<":">>)[2]),
         confidence    |-> ParseFloat(Strip(Split(lines[5], <<":">>)[2]))]

\* _create_messages(system_content, user_content)
CreateMessages(system_content, user_content) ==
    << [role |-> "system", content |-> system_content],
       [role |-> "user", content |-> user_content] >>

\* the document handed to the analyses
DocumentContent == <<"lease">>

CitationsRaises(r) == PipeRaises(r, 3)

CitationsParsed(r) == PipeParsed(r, <<"citation", "type", "relevance">>)

ClausesRaises(r) == PipeRaises(r, 4)

ClausesParsed(r) == PipeParsed(r, <<"clause", "type", "risk_level", "comments">>)

PartiesRaises(r) == PipeRaises(r, 4)

PartiesParsed(r) == PipeParsed(r, <<"name", "role", "type", "obligations">>)

\* the parsing of the analysis name raises on the output r
ParsingRaises(name, r) ==
    CASE name = "extract_legal_citations" -> CitationsRaises(r)
      [] name = "analyze_contract_clauses" -> ClausesRaises(r)
      [] name = "assess_legal_risks" -> RisksRaises(r)
      [] name = "classify_document" -> ClassifyRaises(r)
      [] name = "identify_parties" -> PartiesRaises(r)

\* what the analysis name returns for the output r
Parsed(name, r) ==
    CASE name = "extract_legal_citations" -> CitationsParsed(r)
      [] name = "analyze_contract_clauses" -> ClausesParsed(r)
      [] name = "assess_legal_risks" -> RisksParsed(r)
      [] name = "classify_document" -> ClassifyParsed(r)
      [] name = "identify_parties" -> PartiesParsed(r)

\* One structured analysis: the messages are built, _make_request calls the
\* generation capability once and the output is parsed; an exception of the
\* request or of the parsing becomes HTTPException(500, detail)
StructuredAnalysis(name, system_content, user_content, detail) ==
    /\ op = "mistral"
    /\ pc = "service"
    /\ pc' = "done"
    /\ call' = [name |-> name, content |-> DocumentContent]
    /\ messages' = CreateMessages(<<system_content>>,
                                  <<user_content>> \o DocumentContent)
    /\ api_calls' = <<"chat">>
    /\ \/ /\ \E r \in Responses :
                /\ response' = r
                /\ IF ParsingRaises(name, r)
                   THEN exc' = detail /\ StoreRaise
                   ELSE exc' = "" /\ StoreReturn(Parsed(name, r))
          /\ failures' = {}
       \/ /\ failures' = {"chat"}
          /\ response' = <<>>
          /\ exc' = detail
          /\ StoreRaise
    /\ UNCHANGED <<op, saved_upload, splitVars, file_name, audio_file, caller, n_pages, page_i,
                   out, transcript, tempdir, frame_sample_rate, video, chroma_docs,
                   next_uuid, mock_docs, docs>>

ExtractLegalCitations ==
    StructuredAnalysis("extract_legal_citations",
                       "You are a legal citation expert.",
                       "Extract and analyze all legal citations from this document:\n\n",
                       "Citation extraction failed")

AnalyzeContractClauses ==
    StructuredAnalysis("analyze_contract_clauses",
                       "You are a contract analysis expert.",
                       "Analyze the clauses in this contract:\n\n",
                       "Contract analysis failed")

AssessLegalRisks ==
    StructuredAnalysis("assess_legal_risks",
                       "You are a legal risk assessment expert.",
                       "Perform a legal risk assessment of this document:\n\n",
                       "Risk assessment failed")

ClassifyDocument ==
    StructuredAnalysis("classify_document",
                       "You are a legal document classification expert.",
                       "Classify this legal document:\n\n",
                       "Document classification failed")

IdentifyParties ==
    StructuredAnalysis("identify_parties",
                       "You are a legal party analysis expert.",
                       "Identify and analyze all parties in this document:\n\n",
                       "Party identification failed")

(* One call of a structured analysis on a MistralService; the service keeps
   nothing from one call to the next *)

MistralInit ==
    /\ op = "mistral"
    /\ pc = "service"
    /\ text = <<>>
    /\ chunk_size = 1
    /\ chunk_overlap = 0
    /\ start = 0
    /\ chunks = <<>>
    /\ ExtractIdle
    /\ StoreIdle
    /\ NothingReturned
    /\ ServiceIdle

MistralNext ==
    \/ ExtractLegalCitations
    \/ AnalyzeContractClauses
    \/ AssessLegalRisks
    \/ ClassifyDocument
    \/ IdentifyParties

MistralSpec == MistralInit /\ [][MistralNext]_vars

\* the analyses whose output is a line of delimited fields per item, with the
\* number of fields of an item
FieldsPerLine ==
    [extract_legal_citations |-> 3, analyze_contract_clauses |-> 4,
     identify_parties |-> 4]

\* the output r deviates from the structure the analysis name expects: a line
\* with text but without the delimiter, a wrong number of fields, fewer
\* sections or lines than expected, a line without its colon, a confidence
\* that is not a number
Deviates(name, r) ==
    IF name \in DOMAIN FieldsPerLine
    THEN \E i \in 1..Len(Split(r, <<"\n">>)) :
            LET line == Split(r, <<"\n">>)[i]
            IN  /\ ~IsBlank(line)
                /\ \/ ~Contains(line, "|")
                   \/ Len(Split(line, <<"|">>)) # FieldsPerLine[name]
    ELSE IF name = "assess_legal_risks"
    THEN \/ Len(Split(r, <<"\n", "\n">>)) < 4
         \/ ~Contains(Split(r, <<"\n", "\n">>)[1], ":")
    ELSE \/ Len(Split(r, <<"\n">>)) < 5
         \/ \E i \in 1..5 : ~Contains(Split(r, <<"\n">>)[i], ":")
         \/ ~IsFloat(Strip(Split(Split(r, <<"\n">>)[5], <<":">>)[2]))

\* C17: whenever the generation output of a structured analysis deviates from
\* the expected structure, the call ends with an HTTPException and returns no
\* data.
MalformedOutputAlwaysReported ==
    (op = "mistral" /\ call.name # "none" /\ failures = {}
        /\ Deviates(call.name, response))
        => (raised /\ ~returned)

-----------------------------------------------------------------------------
(* The /analyze route: analyze_document *)

\* k: int = 4, the default of ChromaStore.similarity_search
DefaultK == 4

\* the entries an index holds after add_document on each chunk of a list
IndexOf(chunk_list) ==
    [i \in 1..Len(chunk_list) |->
        [id |-> Uuid(i - 1),
         page_content |-> chunk_list[i].content,
         metadata |-> StoredMetadata(chunk_list[i].metadata)]]

\* the indexes a request may find
Indexes == {IndexOf(l) : l \in UNION {[1..n -> StoreChunks] : n \in 0..MaxDocs}}

\* what mistral_client.chat may return: no choice, or one choice with a text
ChatResponses ==
    { [choices |-> <<>>],
      [choices |-> <<[message |-> [content |-> <<"The rent is due monthly.">>]]>>],
      [choices |-> <<[message |-> [content |-> <<"I do not know.">>]]>>] }

\* ChatMessage(role=..., content=...)
ChatMessage(role, content) == [role |-> role, content |-> content]

\* the contents joined the last first
ContextLastFirst(documents) ==
    JoinWith([i \in 1..Len(documents) |->
                 documents[Len(documents) + 1 - i].page_content], <<"\n\n">>)

\* context = "\n\n".join([doc.page_content for doc in docs])
Context(documents) ==
    JoinWith([i \in 1..Len(documents) |-> documents[i].page_content], <<"\n\n">>)

\* user_prompt = f"Context:\n{context}\n\nQuestion: {query}"
UserPrompt(context, query) ==
    <<"Context:\n">> \o context \o <<"\n\nQuestion: ">> \o <<query>>

\* the sources built by the loop over docs
Sources(documents) ==
    [i \in 1..Len(documents) |->
        [content |-> documents[i].page_content, metadata |-> documents[i].metadata]]

\* except Exception as e: raise HTTPException(status_code=500, detail=str(e))
AnalyzeExcept(msg) ==
    /\ pc' = "done"
    /\ raised' = TRUE
    /\ exc' = msg
    /\ UNCHANGED <<returned, result>>

\* docs = vector_store.similarity_search(query)
AnalyzeSearch ==
    /\ pc = "analyze_search"
    /\ api_calls' = Append(api_calls, "similarity_search")
    /\ \/ /\ \E ranking \in Rankings(call.query, chroma_docs,
                                      Min(DefaultK, Len(chroma_docs))) :
                docs' = SimilarDocuments(call.query, ranking)
          /\ pc' = "analyze_chat"
          /\ UNCHANGED <<failures, exc, endVars>>
       \/ /\ failures' = failures \cup {"similarity_search"}
          /\ AnalyzeExcept("cannot search")
          /\ UNCHANGED docs
    /\ UNCHANGED <<op, saved_upload, splitVars, file_name, audio_file, caller, n_pages, page_i,
                   out, transcript, tempdir, frame_sample_rate, video, storeVars,
                   response, messages>>

\* the context and the two messages are built, and
\* response = mistral_client.chat(model="mistral-tiny", messages=messages)
AnalyzeChat ==
    /\ pc = "analyze_chat"
    /\ messages' = << ChatMessage("system", <<"You are a legal document analysis assistant. Use the following context to answer the question.">>),
                      ChatMessage("user", UserPrompt(Context(docs), call.query)) >>
    /\ api_calls' = Append(api_calls, "chat")
    /\ \/ /\ response' \in ChatResponses
          /\ pc' = "analyze_return"
          /\ UNCHANGED <<failures, exc, endVars>>
       \/ /\ failures' = failures \cup {"chat"}
          /\ AnalyzeExcept("cannot generate")
          /\ UNCHANGED response
    /\ UNCHANGED <<op, saved_upload, splitVars, file_name, audio_file, caller, n_pages, page_i,
                   out, transcript, tempdir, frame_sample_rate, video, storeVars, docs>>

\* the sources are built and
\* return AnalysisResponse(answer=response.choices[0].message.content,
\*                         sources=sources)
AnalyzeReturn ==
    /\ pc = "analyze_return"
    /\ IF Len(response.choices) = 0
       THEN AnalyzeExcept("list index out of range")
       ELSE /\ pc' = "done"
            /\ returned' = TRUE
            /\ result' = [answer  |-> response.choices[1].message.content,
                          sources |-> Sources(docs)]
            /\ UNCHANGED <<raised, exc>>
    /\ UNCHANGED <<op, saved_upload, splitVars, file_name, audio_file, caller, n_pages, page_i,
                   out, transcript, failures, tempdir, frame_sample_rate, video,
                   storeVars, serviceVars>>

(* One request on /analyze, on an index that holds what was added before *)

AnalyzeInit ==
    /\ op = "analyze"
    /\ pc = "analyze_search"
    /\ text = <<>>
    /\ chunk_size = 1
    /\ chunk_overlap = 0
    /\ start = 0
    /\ chunks = <<>>
    /\ ExtractIdle
    /\ chroma_docs \in Indexes
    /\ next_uuid = Len(chroma_docs)
    /\ mock_docs = <<>>
    /\ \E query \in Queries : call = [name |-> "analyze_document", query |-> query]
    /\ NothingReturned
    /\ ServiceIdle

AnalyzeNext ==
    \/ AnalyzeSearch
    \/ AnalyzeChat
    \/ AnalyzeReturn

AnalyzeSpec == AnalyzeInit /\ [][AnalyzeNext]_vars

\* C15: a request on /analyze calls the index search once and then the
\* generation capability once and nothing else; when it answers, the prompt is
\* a system message and one user message made of the retrieved contents joined
\* by blank lines in the order of the search result and then the query, and the
\* sources are the whole retrieved list in that same order.
AnswerIsOneSearchThenOneGeneration ==
    op = "analyze" =>
        /\ api_calls \in {<<>>, <<"similarity_search">>, <<"similarity_search", "chat">>}
        /\ (pc = "done" /\ returned) =>
              /\ api_calls = <<"similarity_search", "chat">>
              /\ \E ranking \in Rankings(call.query, chroma_docs,
                                          Min(DefaultK, Len(chroma_docs))) :
                    docs = [i \in 1..Len(ranking) |->
                               [page_content |-> chroma_docs[ranking[i]].page_content,
                                metadata |-> chroma_docs[ranking[i]].metadata]]
              /\ Len(messages) = 2
              /\ messages[1].role = "system"
              /\ messages[2].role = "user"
              /\ messages[2].content =
                    <<"Context:\n">>
                    \o JoinWith([i \in 1..Len(docs) |-> docs[i].page_content],
                                <<"\n\n">>)
                    \o <<"\n\nQuestion: ", call.query>>
              /\ result.answer = response.choices[1].message.content
              /\ Len(result.sources) = Len(docs)
              /\ \A i \in 1..Len(docs) :
                    /\ result.sources[i].content = docs[i].page_content
                    /\ result.sources[i].metadata = docs[i].metadata

\* C15 witness: a request has answered with two sources of different contents
AnsweredWithTwoSources ==
    /\ op = "analyze"
    /\ pc = "done"
    /\ returned
    /\ Len(result.sources) = 2
    /\ result.sources[1].content # result.sources[2].content

\* C16: when the search finds no chunk, the request does not call the
\* generation capability and returns no answer; it reports instead that the
\* answer could not be grounded, which is not what it reports when the
\* generation capability fails.
EmptyRetrievalIsNotAnswered ==
    (op = "analyze" /\ pc = "done"
        /\ "similarity_search" \notin failures /\ docs = <<>>)
        => /\ ~returned
           /\ raised
           /\ "chat" \notin failures
           /\ api_calls = <<"similarity_search">>

-----------------------------------------------------------------------------
(* _split_text: where chunks start and end *)

\* C21: after each chunk that is not the last, the next chunk starts at a
\* position of the text that lies exactly chunk_overlap characters before
\* the position where the chunk just cut ended.
NextChunkStartsOverlapBeforeEnd ==
    [][(pc = "split_loop" /\ start < Len(text) /\ Len(chunks) < MaxChunks
            /\ start' < Len(text))
        => /\ start >= 0
           /\ start' >= 0
           /\ start' = (start + Len(chunks'[Len(chunks')])) - chunk_overlap]_vars

\* C22: in each step, when the window text[cursor : cursor + chunk_size] ends
\* before the end of the text and holds a newline or a space, the chunk is the
\* window up to, and without, its right-most newline or space; when the window
\* holds none, or reaches the end of the text, the chunk is the whole window.
ChunkCutBeforeLastWhitespaceElseRawWindow ==
    [][(pc = "split_loop" /\ start < Len(text) /\ Len(chunks) < MaxChunks)
        => LET window     == PySlice(text, start, start + chunk_size)
               whitespace == {k \in 1..Len(window) : window[k] \in {"\n", " "}}
               chunk      == chunks'[Len(chunks')]
           IN  /\ Len(chunks') = Len(chunks) + 1
               /\ IF start + chunk_size < Len(text) /\ whitespace # {}
                  THEN \E k \in whitespace :
                          /\ \A m \in whitespace : m <= k
                          /\ chunk = SubSeq(window, 1, k - 1)
                  ELSE chunk = window]_vars

\* C22 witness: a split has returned a chunk cut before a newline that follows
\* a space in its window, and then a chunk that is the raw window at the end
SplitReturnedCutBeforeNewlineThenRaw ==
    /\ op = "split"
    /\ pc = "done"
    /\ returned
    /\ text = <<"A", " ", "B", "\n", "A">>
    /\ chunk_size = 4
    /\ result = << <<"A", " ", "B">>, <<"\n", "A">> >>

-----------------------------------------------------------------------------
(* What the extractors return *)

\* C23: every chunk returned by an extractor has content that is not empty
\* after trimming whitespace.
ReturnedChunksHaveText ==
    (op \in {"pdf", "audio", "video"} /\ pc = "done" /\ returned)
        => \A k \in 1..Len(result) : ~IsBlank(result[k].content)

\* C24: a page whose text is blank after trimming adds no chunk and is still
\* counted; every other page is split on its own, from an empty chunk list,
\* and its chunks are appended after those of the earlier pages, in the order
\* of the split, with chunk_index 0, 1, ... and the 1-based number of the page.
PdfSkipsBlankPagesAndNumbersTheRest ==
    [][(op = "pdf" /\ ~raised')
        => /\ (pc = "pdf_page" /\ page_i < n_pages /\ IsBlank(text'))
                => /\ out' = out
                   /\ page_i' = page_i + 1
                   /\ pc' = "pdf_page"
           /\ (pc = "pdf_page" /\ page_i < n_pages /\ ~IsBlank(text'))
                => /\ pc' = "split_loop"
                   /\ start' = 0
                   /\ chunks' = <<>>
                   /\ out' = out
                   /\ page_i' = page_i
           /\ pc = "pdf_emit"
                => /\ ~IsBlank(text)
                   /\ Len(out') = Len(out) + Len(chunks)
                   /\ SubSeq(out', 1, Len(out)) = out
                   /\ \A k \in 1..Len(chunks) :
                         /\ out'[Len(out) + k].content = chunks[k]
                         /\ out'[Len(out) + k].metadata.chunk_index = k - 1
                         /\ out'[Len(out) + k].metadata.page_number = page_i + 1
                   /\ page_i' = page_i + 1
           /\ (pc = "pdf_page" /\ pc' = "done")
                => /\ page_i = n_pages
                   /\ result' = out]_vars

\* C24 witness: a PDF of two pages has returned, its first page skipped and
\* its second page cut into two chunks
PdfReturnedSecondPageOnly ==
    /\ op = "pdf"
    /\ pc = "done"
    /\ returned
    /\ n_pages = 2
    /\ Len(result) = 2
    /\ result[1].metadata.page_number = 2
    /\ result[1].metadata.chunk_index = 0
    /\ result[2].metadata.page_number = 2
    /\ result[2].metadata.chunk_index = 1


\* the sampled seconds of the clip at which the detector leaves a detection
DetectionSeconds ==
    {t \in 0..(video.duration - 1) :
        t % frame_sample_rate = 0 /\ video.detected[t] # <<>>}

-----------------------------------------------------------------------------
(* The ids of search results *)

\* C26: the id of every result of ChromaStore.search is the id insertion
\* assigned to the entry found, so that get_document or delete_document on
\* it addresses that entry.
SearchResultIdIsEntryId ==
    (op = "chroma" /\ call.name = "search" /\ returned)
        => \A i \in 1..Len(result) :
              \E j \in 1..Len(chroma_docs) :
                  /\ chroma_docs[j].id = result[i].id
                  /\ chroma_docs[j].page_content = result[i].content


-----------------------------------------------------------------------------
(* MockStore: ids and entries *)

\* C28: every MockStore.add_document returns an id that no entry of the store
\* has, and so none an earlier call returned, since no entry ever leaves; it
\* adds one entry under that id holding the chunk given and changes no other;
\* search leaves the store as it is.
MockAddsOneEntryUnderFreshId ==
    [][op = "mock"
        => /\ call'.name = "add_document"
                => /\ returned'
                   /\ \A i \in 1..Len(mock_docs) : mock_docs[i].key # result'
                   /\ mock_docs' = Append(mock_docs, [key   |-> result',
                                                     value |-> call'.chunk])
           /\ call'.name = "search"
                => /\ returned'
                   /\ mock_docs' = mock_docs]_vars

\* C28 witness: a search has returned on a store to which the same chunk was
\* added twice and another once: it holds three entries under three ids
MockSearchedAfterSameChunkAddedTwice ==
    /\ op = "mock"
    /\ call.name = "search"
    /\ returned
    /\ Len(mock_docs) = 3
    /\ mock_docs[1].value = mock_docs[2].value
    /\ mock_docs[3].value # mock_docs[1].value
    /\ Cardinality({mock_docs[i].key : i \in 1..3}) = 3


\* C29: every chunk returned by an extractor carries the extractor's modality
\* as document_type and the base name of the path given to process as
\* source_file, the transcript and object-detection chunks of a video
\* included.
ReturnedChunksCarryModalityAndSourceFile ==
    (op \in {"pdf", "audio", "video"} /\ pc = "done" /\ returned)
        => \A k \in 1..Len(result) :
              /\ "document_type" \in DOMAIN result[k].metadata
              /\ result[k].metadata.document_type = op
              /\ "source_file" \in DOMAIN result[k].metadata
              /\ result[k].metadata.source_file = file_name

-----------------------------------------------------------------------------
(* POST /upload: upload_document *)

\* the file names uploaded, as sequences of characters
FileNames ==
    { <<"a", ".", "p", "d", "f">>,
      <<"a", ".", "P", "D", "F">>,
      <<"a", ".", "m", "p", "3">>,
      <<"a", ".", "w", "a", "v">>,
      <<"a", ".", "m", "p", "4">>,
      <<"a", ".", "a", "v", "i">>,
      <<"a", ".", "t", "x", "t">>,
      <<"a", ".", "p", "d", "f", ".", "t", "x", "t">>,
      <<"a", ".">>,
      <<"p", "d", "f">> }

\* s.lower() on the letters of FileNames
Lower(s) ==
    [k \in 1..Len(s) |-> CASE s[k] = "P" -> "p"
                           [] s[k] = "D" -> "d"
                           [] s[k] = "F" -> "f"
                           [] OTHER -> s[k]]

\* file.filename.lower().split('.')[-1]
FileExtension(filename) ==
    LET name == Lower(filename)
    IN  SubSeq(name, RFind(name, ".") + 2, Len(name))

\* the processor the extension selects, "" when it selects none
ProcessorFor(file_extension) ==
    IF file_extension \in {<<"p", "d", "f">>} THEN "pdf"
    ELSE IF file_extension \in {<<"m", "p", "3">>, <<"w", "a", "v">>} THEN "audio"
    ELSE IF file_extension \in {<<"m", "p", "4">>, <<"a", "v", "i">>} THEN "video"
    ELSE ""

\* what a processor may return for the saved file
ProcessorOutputs(modality) ==
    LET chunk == BaseChunk(<<"text">>, [document_type |-> modality])
    IN  {<<>>, <<chunk>>, <<chunk, chunk>>}

\* str(e) of HTTPException(status_code=400, detail=...): empty, or the status
\* and the detail, depending on the installed starlette
StrOfHTTPException == {"", "400: Unsupported file type"}

\* uploads_dir.mkdir(exist_ok=True); the file is written to uploads/<filename>.
\* Whenever a file was created, file_path is bound.
UploadSave ==
    /\ pc = "upload_save"
    /\ \/ /\ saved_upload' = TRUE
          /\ pc' = "upload_process"
          /\ UNCHANGED <<failures, exc>>
       \/ /\ saved_upload' \in BOOLEAN
          /\ failures' = failures \cup {"save"}
          /\ exc' = "cannot save the upload"
          /\ pc' = "upload_except"
    /\ UNCHANGED <<op, splitVars, file_name, audio_file, caller, n_pages, page_i,
                   out, transcript, tempdir, frame_sample_rate, video, storeVars,
                   endVars, response, messages, docs, api_calls>>

\* the processor of the extension is run, or HTTPException(400) is raised
\* inside the try block
UploadProcess ==
    /\ pc = "upload_process"
    /\ LET modality == ProcessorFor(FileExtension(file_name))
       IN  IF modality # ""
           THEN \/ /\ out' \in ProcessorOutputs(modality)
                   /\ pc' = "upload_store"
                   /\ UNCHANGED <<failures, exc>>
                \/ /\ failures' = failures \cup {"process"}
                   /\ exc' = "cannot process the file"
                   /\ pc' = "upload_except"
                   /\ UNCHANGED out
           ELSE /\ failures' = failures \cup {"unsupported"}
                /\ exc' \in StrOfHTTPException
                /\ pc' = "upload_except"
                /\ UNCHANGED out
    /\ UNCHANGED <<op, splitVars, file_name, audio_file, caller, n_pages, page_i,
                   transcript, tempdir, frame_sample_rate, video, storeVars,
                   endVars, serviceVars>>

\* vector_store.add_documents(chunks): ChromaStore has no such attribute, the
\* call raises AttributeError and `return {"message": ...}` is never reached
UploadStore ==
    /\ pc = "upload_store"
    /\ failures' = failures \cup {"add_documents"}
    /\ exc' = "'ChromaStore' object has no attribute 'add_documents'"
    /\ pc' = "upload_except"
    /\ UNCHANGED <<op, splitVars, file_name, audio_file, caller, n_pages, page_i,
                   out, transcript, tempdir, frame_sample_rate, video, storeVars,
                   endVars, serviceVars>>

\* except Exception as e: raise HTTPException(status_code=500, detail=str(e))
UploadExcept ==
    /\ pc = "upload_except"
    /\ result' = [status_code |-> 500, detail |-> exc]
    /\ pc' = "upload_finally"
    /\ UNCHANGED <<op, splitVars, extractVars, storeVars, returned, raised,
                   serviceVars>>

\* finally: if 'file_path' in locals(): file_path.unlink(missing_ok=True);
\* the HTTPException then goes to the framework
UploadFinally ==
    /\ pc = "upload_finally"
    /\ saved_upload' = FALSE
    /\ raised' = TRUE
    /\ pc' = "done"
    /\ UNCHANGED <<op, splitVars, extractVars, storeVars, returned, result,
                   response, messages, docs, api_calls>>

UploadInit ==
    /\ op = "upload"
    /\ pc = "upload_save"
    /\ text = <<>>
    /\ chunk_size = 1
    /\ chunk_overlap = 0
    /\ start = 0
    /\ chunks = <<>>
    /\ file_name \in FileNames
    /\ audio_file = ""
    /\ caller = "top"
    /\ n_pages = 0
    /\ page_i = 0
    /\ out = <<>>
    /\ transcript = PyNone
    /\ failures = {}
    /\ exc = ""
    /\ tempdir = "none"
    /\ frame_sample_rate = 1
    /\ video = PyNone
    /\ StoreIdle
    /\ NothingReturned
    /\ ServiceIdle

UploadNext ==
    \/ UploadSave
    \/ UploadProcess
    \/ UploadStore
    \/ UploadExcept
    \/ UploadFinally

UploadSpec == UploadInit /\ [][UploadNext]_vars

\* C27: an upload whose file name ends, after its last dot, in something
\* other than pdf, mp3, wav, mp4 or avi (in any case) is rejected with the
\* HTTP status 400, nothing is added to the vector index, and the saved file
\* is removed.
UnsupportedUploadRejectedWith400 ==
    (op = "upload" /\ pc = "done" /\ "save" \notin failures
        /\ \E k \in 1..Len(file_name) :
              /\ file_name[k] = "."
              /\ \A m \in (k + 1)..Len(file_name) : file_name[m] # "."
              /\ Lower(SubSeq(file_name, k + 1, Len(file_name)))
                    \notin {<<"p", "d", "f">>, <<"m", "p", "3">>, <<"w", "a", "v">>,
                            <<"m", "p", "4">>, <<"a", "v", "i">>})
        => /\ raised
           /\ result.status_code = 400
           /\ chroma_docs = <<>>
           /\ ~saved_upload

=============================================================================
